---- MODULE Spec2Model ----
(***************************************************************************)
(* Model of master/buildbot/status/web/slaves.py: the duty-cycle bucket    *)
(* aggregation (between, add_to_buckets, determine_duty_cycle) and the     *)
(* authorization-gated slave actions (ShutdownActionResource,              *)
(* PauseActionResource).                                                   *)
(*                                                                         *)
(* Timestamps are integers (seconds).  buckets is a function on            *)
(* 0..num_buckets-1, indexed as the Python list is.                        *)
(***************************************************************************)
EXTENDS Integers, Sequences, FiniteSets

VARIABLES
    num_buckets,   \* add_to_buckets / determine_duty_cycle: number of buckets
    bucket_size,   \* width of one bucket in seconds
    now,           \* the reference time (util.now())
    buckets,       \* the accumulator list, [0..num_buckets-1 -> Int]
    taken,         \* branch of the if/elif chain taken for each bucket by the last add_to_buckets call
    pc,            \* position of the computation
    start,         \* add_to_buckets arguments of the interval under study
    end,
    mid,           \* split point when the interval is added in two pieces
    current,       \* builds yielded by getCurrentBuilds() of my_builders
    finished,      \* builds yielded by status.generateFinishedBuilds(...)
    ci,            \* index of the next current build to sweep
    fi,            \* index of the next finished build to sweep
    graceful,      \* slave state set by setGraceful
    paused,        \* slave state set by setPaused
    req            \* web requests in flight: resource created, deferred pending, url returned

vars == <<num_buckets, bucket_size, now, buckets, taken, pc, start, end, mid,
          current, finished, ci, fi, graceful, paused, req>>

bucketVars == <<num_buckets, bucket_size, now, buckets, taken, pc, start, end, mid>>
dutyVars   == <<current, finished, ci, fi>>
webVars    == <<graceful, paused, req>>

----------------------------------------------------------------------------
(* Bounds of the model *)

MaxBuckets  == 3      \* add_to_buckets is explored for num_buckets in 1..MaxBuckets and 7
MaxSize     == 3      \* ... and bucket_size in 1..MaxSize and 86400
MaxCurrent  == 1      \* number of current builds yielded
MaxFinished == 2      \* number of finished builds yielded
MaxRequests == 2      \* number of web requests in flight
NowValue    == 700000 \* the value util.now() returns

----------------------------------------------------------------------------
(* determine_duty_cycle's constants *)

DutyNumBuckets == 7
DutyBucketSize == 60 * 60 * 24

----------------------------------------------------------------------------
(* between, add_to_buckets *)

\* between with both comparisons strict
between_strict(a, n, b) == IF a < n /\ n < b THEN TRUE ELSE FALSE

\* between(a, n, b): True when a <= n < b, otherwise falls off the end and
\* returns None, which every use treats as false.
between(a, n, b) == IF a <= n /\ n < b THEN TRUE ELSE FALSE

bucket_start(n, bs, t) == t - (n + 1) * bs
bucket_end(n, bs, t)   == t - n * bs

\* The branch add_to_buckets takes for bucket n: "continue" for the early
\* continue, one of the four accumulation cases, or "none" when the if/elif
\* chain falls through without adding anything.
branch(n, bs, s, e, t) ==
    LET b_start == bucket_start(n, bs, t)
        b_end   == bucket_end(n, bs, t)
        start_before_bucket == s < b_start
        start_after_bucket  == s > b_end
        start_in_bucket     == between(b_start, s, b_end)
        end_before_bucket   == e < b_start
        end_after_bucket    == e > b_end
        end_in_bucket       == between(b_start, e, b_end)
    IN  IF end_before_bucket \/ start_after_bucket THEN "continue"
        ELSE IF start_in_bucket /\ end_in_bucket THEN "both"
        ELSE IF start_in_bucket THEN "start"
        ELSE IF end_in_bucket THEN "end"
        ELSE IF start_before_bucket /\ end_after_bucket THEN "span"
        ELSE "none"

\* increment with the "only start in bucket" case adding end - start
increment_start_adds_length(n, bs, s, e, t) ==
    LET br == branch(n, bs, s, e, t)
    IN  CASE br = "both"  -> e - s
          [] br = "start" -> e - s
          [] br = "end"   -> e - bucket_start(n, bs, t)
          [] br = "span"  -> 1
          [] OTHER        -> 0

\* increment with the "only end in bucket" case subtracting the wrong way round
increment_end_reversed(n, bs, s, e, t) ==
    LET br == branch(n, bs, s, e, t)
    IN  CASE br = "both"  -> e - s
          [] br = "start" -> bucket_end(n, bs, t) - s
          [] br = "end"   -> bucket_start(n, bs, t) - e
          [] br = "span"  -> 1
          [] OTHER        -> 0

\* What the taken branch adds to buckets[n].
increment(n, bs, s, e, t) ==
    LET br == branch(n, bs, s, e, t)
    IN  CASE br = "both"  -> e - s
          [] br = "start" -> bucket_end(n, bs, t) - s
          [] br = "end"   -> e - bucket_start(n, bs, t)
          [] br = "span"  -> 1
          [] OTHER        -> 0

\* add_to_buckets(num_buckets, buckets, bucket_size, start, end, now): the
\* list after the call.  Iteration n reads and writes buckets[n] only.
add_to_buckets(nb, b, bs, s, e, t) ==
    [n \in 0..(nb - 1) |-> b[n] + increment(n, bs, s, e, t)]

branches(nb, bs, s, e, t) ==
    [n \in 0..(nb - 1) |-> branch(n, bs, s, e, t)]

\* buckets = [0] * num_buckets
zeroed(nb) == [n \in 0..(nb - 1) |-> 0]

----------------------------------------------------------------------------
(* Inputs of add_to_buckets *)

BucketCounts == (1..MaxBuckets) \cup {DutyNumBuckets}
BucketSizes  == (1..MaxSize) \cup {DutyBucketSize}

\* Every bucket boundary of the configuration and its two neighbours, from
\* one bucket after now to one bucket before the oldest; and the two
\* timestamps now-90000 and now-3600.
Times(nb, bs, t) ==
    {t - k * bs + d : k \in 0..(nb + 1), d \in {-1, 0, 1}}
        \cup {t - 90000, t - 3600}

NoBuilds == << >>

InitWebIdle ==
    /\ graceful = FALSE
    /\ paused = FALSE
    /\ req = [r \in 1..MaxRequests |->
                [pc |-> "none", action |-> "none", state |-> FALSE,
                 res |-> FALSE, url |-> "none"]]

InitAdd ==
    /\ num_buckets \in BucketCounts
    /\ bucket_size \in BucketSizes
    /\ now = NowValue
    /\ start \in Times(num_buckets, bucket_size, now)
    /\ end \in Times(num_buckets, bucket_size, now)
    /\ mid = start
    /\ buckets = zeroed(num_buckets)
    /\ taken = [n \in 0..(num_buckets - 1) |-> "continue"]
    /\ pc = "zeroed"
    /\ current = NoBuilds
    /\ finished = NoBuilds
    /\ ci = 1
    /\ fi = 1
    /\ InitWebIdle

\* add_to_buckets(num_buckets, buckets, bucket_size, start, end, now) on zeroed buckets
AddInterval ==
    /\ pc = "zeroed"
    /\ buckets' = add_to_buckets(num_buckets, buckets, bucket_size, start, end, now)
    /\ taken' = branches(num_buckets, bucket_size, start, end, now)
    /\ pc' = "whole"
    /\ UNCHANGED <<num_buckets, bucket_size, now, start, end, mid>>
    /\ UNCHANGED dutyVars
    /\ UNCHANGED webVars

\* add_to_buckets for the first piece [start, m] of the interval, on zeroed buckets
AddLeft ==
    /\ pc = "zeroed"
    /\ \E m \in Times(num_buckets, bucket_size, now) :
          /\ start <= m
          /\ m <= end
          /\ mid' = m
          /\ buckets' = add_to_buckets(num_buckets, buckets, bucket_size, start, m, now)
          /\ taken' = branches(num_buckets, bucket_size, start, m, now)
    /\ pc' = "left"
    /\ UNCHANGED <<num_buckets, bucket_size, now, start, end>>
    /\ UNCHANGED dutyVars
    /\ UNCHANGED webVars

\* add_to_buckets for the second piece [mid, end], on the buckets the first left
AddRight ==
    /\ pc = "left"
    /\ buckets' = add_to_buckets(num_buckets, buckets, bucket_size, mid, end, now)
    /\ taken' = branches(num_buckets, bucket_size, mid, end, now)
    /\ pc' = "split"
    /\ UNCHANGED <<num_buckets, bucket_size, now, start, end, mid>>
    /\ UNCHANGED dutyVars
    /\ UNCHANGED webVars

NextAdd == AddInterval \/ AddLeft \/ AddRight

SpecAdd == InitAdd /\ [][NextAdd]_vars

----------------------------------------------------------------------------
(* determine_duty_cycle *)

\* name: the slave whose duty cycle is computed; builds of the same builders
\* run by another slave are yielded too and filtered out by getSlavename()
SlaveName  == "slave1"
OtherSlave == "slave2"

\* bucket_reach one bucket short
bucket_reach_short(t, nb, bs) == t - (nb - 1) * bs

\* bucket_reach = now - num_buckets * bucket_size
bucket_reach(t, nb, bs) == t - nb * bs

Build(sl, s, e) == [slavename |-> sl, times |-> <<s, e>>]

\* Timestamps of the builds: just before, at and just after the oldest
\* bucket's start, just before now, and now.
DutyTimes ==
    LET reach == NowValue - DutyNumBuckets * DutyBucketSize
    IN  {reach - 1, reach, reach + 1, NowValue - 1, NowValue}

\* What generateFinishedBuilds can yield: builds of the slave with any two of
\* the timestamps as (start, end), and builds of another slave.
FinishedBuilds ==
    {Build(SlaveName, s, e) : s \in DutyTimes, e \in DutyTimes}
        \cup {Build(OtherSlave, NowValue - DutyNumBuckets * DutyBucketSize - 1,
                                NowValue - DutyNumBuckets * DutyBucketSize - 1),
              Build(OtherSlave, NowValue - DutyNumBuckets * DutyBucketSize + 1, NowValue)}

\* What getCurrentBuilds can yield: builds in progress, whose interval ends now.
CurrentBuilds ==
    {Build(SlaveName, NowValue - DutyNumBuckets * DutyBucketSize + 1, NowValue),
     Build(SlaveName, NowValue - 1, NowValue),
     Build(OtherSlave, NowValue - 1, NowValue)}

SeqsUpTo(S, k) == UNION {[1..m -> S] : m \in 0..k}

\* num_buckets = 7; buckets = [0] * num_buckets; now = util.now();
\* bucket_size = 60 * 60 * 24
InitDuty ==
    /\ num_buckets = DutyNumBuckets
    /\ bucket_size = DutyBucketSize
    /\ now = NowValue
    /\ buckets = zeroed(num_buckets)
    /\ taken = [n \in 0..(num_buckets - 1) |-> "continue"]
    /\ pc = "current"
    /\ start = now
    /\ end = now
    /\ mid = now
    /\ current \in SeqsUpTo(CurrentBuilds, MaxCurrent)
    /\ finished \in SeqsUpTo(FinishedBuilds, MaxFinished)
    /\ ci = 1
    /\ fi = 1
    /\ InitWebIdle

\* One iteration of the loop over the current builds
SweepCurrent ==
    /\ pc = "current"
    /\ ci <= Len(current)
    /\ LET cb == current[ci]
       IN  IF cb.slavename = SlaveName
           THEN /\ start' = cb.times[1]
                /\ end' = cb.times[2]
                /\ buckets' = add_to_buckets(num_buckets, buckets, bucket_size,
                                             cb.times[1], cb.times[2], now)
                /\ taken' = branches(num_buckets, bucket_size, cb.times[1], cb.times[2], now)
           ELSE UNCHANGED <<start, end, buckets, taken>>
    /\ ci' = ci + 1
    /\ UNCHANGED <<num_buckets, bucket_size, now, pc, mid, current, finished, fi>>
    /\ UNCHANGED webVars

\* The loop over the current builds is exhausted
EndCurrent ==
    /\ pc = "current"
    /\ ci > Len(current)
    /\ pc' = "finished"
    /\ UNCHANGED <<num_buckets, bucket_size, now, buckets, taken, start, end, mid>>
    /\ UNCHANGED dutyVars
    /\ UNCHANGED webVars

\* SweepFinished breaking at an end before or equal to bucket_reach
SweepFinished_break_on_equal ==
    /\ pc = "finished"
    /\ fi <= Len(finished)
    /\ LET rb == finished[fi]
       IN  IF rb.slavename # SlaveName
           THEN /\ fi' = fi + 1
                /\ UNCHANGED <<pc, start, end, buckets, taken>>
           ELSE IF rb.times[2] <= bucket_reach(now, num_buckets, bucket_size)
           THEN /\ pc' = "normalize"
                /\ start' = rb.times[1]
                /\ end' = rb.times[2]
                /\ UNCHANGED <<fi, buckets, taken>>
           ELSE /\ start' = rb.times[1]
                /\ end' = rb.times[2]
                /\ buckets' = add_to_buckets(num_buckets, buckets, bucket_size,
                                             rb.times[1], rb.times[2], now)
                /\ taken' = branches(num_buckets, bucket_size, rb.times[1], rb.times[2], now)
                /\ fi' = fi + 1
                /\ UNCHANGED pc
    /\ UNCHANGED <<num_buckets, bucket_size, now, mid, current, finished, ci>>
    /\ UNCHANGED webVars

\* One iteration of the loop over generateFinishedBuilds: skip another
\* slave's build, break at an end before bucket_reach, otherwise add.
SweepFinished ==
    /\ pc = "finished"
    /\ fi <= Len(finished)
    /\ LET rb == finished[fi]
       IN  IF rb.slavename # SlaveName
           THEN /\ fi' = fi + 1
                /\ UNCHANGED <<pc, start, end, buckets, taken>>
           ELSE IF rb.times[2] < bucket_reach(now, num_buckets, bucket_size)
           THEN /\ pc' = "normalize"
                /\ start' = rb.times[1]
                /\ end' = rb.times[2]
                /\ UNCHANGED <<fi, buckets, taken>>
           ELSE /\ start' = rb.times[1]
                /\ end' = rb.times[2]
                /\ buckets' = add_to_buckets(num_buckets, buckets, bucket_size,
                                             rb.times[1], rb.times[2], now)
                /\ taken' = branches(num_buckets, bucket_size, rb.times[1], rb.times[2], now)
                /\ fi' = fi + 1
                /\ UNCHANGED pc
    /\ UNCHANGED <<num_buckets, bucket_size, now, mid, current, finished, ci>>
    /\ UNCHANGED webVars

\* generateFinishedBuilds is exhausted
EndFinished ==
    /\ pc = "finished"
    /\ fi > Len(finished)
    /\ pc' = "normalize"
    /\ UNCHANGED <<num_buckets, bucket_size, now, buckets, taken, start, end, mid>>
    /\ UNCHANGED dutyVars
    /\ UNCHANGED webVars

\* for n in range(num_buckets): buckets[n] /= bucket_size; return buckets.
\* On the integer timestamps of this model Python 2's / is floor division.
Normalize ==
    /\ pc = "normalize"
    /\ buckets' = [n \in 0..(num_buckets - 1) |-> buckets[n] \div bucket_size]
    /\ pc' = "done"
    /\ UNCHANGED <<num_buckets, bucket_size, now, taken, start, end, mid>>
    /\ UNCHANGED dutyVars
    /\ UNCHANGED webVars

NextDuty == SweepCurrent \/ EndCurrent \/ SweepFinished \/ EndFinished \/ Normalize

SpecDuty == InitDuty /\ [][NextDuty]_vars

----------------------------------------------------------------------------
(* OneBuildSlaveResource.getChild, ShutdownActionResource and              *)
(* PauseActionResource.performAction                                       *)

Requests == 1..MaxRequests

Paths == {"shutdown", "pause", "unpause", "other"}

\* OneBuildSlaveResource.getChild(path, req): the resource serving the request
getChild(r, path) ==
    /\ req[r].pc = "none"
    /\ req' = [req EXCEPT ![r] =
                 IF path = "shutdown"
                 THEN [@ EXCEPT !.pc = "created", !.action = "gracefulShutdown"]
                 ELSE IF path = "pause" \/ path = "unpause"
                 THEN [@ EXCEPT !.pc = "created", !.action = "pauseSlave",
                                !.state = (path = "pause")]
                 ELSE [@ EXCEPT !.pc = "redirect", !.url = "path_to_slave"]]
    /\ UNCHANGED <<graceful, paused>>
    /\ UNCHANGED bucketVars
    /\ UNCHANGED dutyVars

\* performAction up to its yield: actionAllowed(self.action, request,
\* self.slave) is called and its deferred is pending
performAction_yield(r) ==
    /\ req[r].pc = "created"
    /\ req' = [req EXCEPT ![r].pc = "waiting"]
    /\ UNCHANGED <<graceful, paused>>
    /\ UNCHANGED bucketVars
    /\ UNCHANGED dutyVars

\* ShutdownActionResource.performAction resumed, setting graceful whatever res is
ShutdownActionResource_resume_unchecked(r, res) ==
    /\ req[r].pc = "waiting"
    /\ req[r].action = "gracefulShutdown"
    /\ graceful' = TRUE
    /\ req' = [req EXCEPT ![r].pc = "done", ![r].res = res,
                          ![r].url = IF res THEN "path_to_slave" ELSE "path_to_authzfail"]
    /\ UNCHANGED paused
    /\ UNCHANGED bucketVars
    /\ UNCHANGED dutyVars

\* ShutdownActionResource.performAction resumed with the result res of
\* actionAllowed: setGraceful(True) and the slave's page if res, otherwise
\* the authorization-failure page
ShutdownActionResource_resume(r, res) ==
    /\ req[r].pc = "waiting"
    /\ req[r].action = "gracefulShutdown"
    /\ IF res
       THEN /\ graceful' = TRUE
            /\ req' = [req EXCEPT ![r].pc = "done", ![r].res = res,
                                  ![r].url = "path_to_slave"]
       ELSE /\ UNCHANGED graceful
            /\ req' = [req EXCEPT ![r].pc = "done", ![r].res = res,
                                  ![r].url = "path_to_authzfail"]
    /\ UNCHANGED paused
    /\ UNCHANGED bucketVars
    /\ UNCHANGED dutyVars

\* PauseActionResource.performAction resumed with the result res of
\* actionAllowed: setPaused(self.state) and the slave's page if res, otherwise
\* the authorization-failure page
PauseActionResource_resume(r, res) ==
    /\ req[r].pc = "waiting"
    /\ req[r].action = "pauseSlave"
    /\ IF res
       THEN /\ paused' = req[r].state
            /\ req' = [req EXCEPT ![r].pc = "done", ![r].res = res,
                                  ![r].url = "path_to_slave"]
       ELSE /\ UNCHANGED paused
            /\ req' = [req EXCEPT ![r].pc = "done", ![r].res = res,
                                  ![r].url = "path_to_authzfail"]
    /\ UNCHANGED graceful
    /\ UNCHANGED bucketVars
    /\ UNCHANGED dutyVars

\* The deferred of actionAllowed fails: the exception is raised at the yield
\* and performAction ends without reaching the if
performAction_errback(r) ==
    /\ req[r].pc = "waiting"
    /\ req' = [req EXCEPT ![r].pc = "failed"]
    /\ UNCHANGED <<graceful, paused>>
    /\ UNCHANGED bucketVars
    /\ UNCHANGED dutyVars

InitWeb ==
    /\ num_buckets = DutyNumBuckets
    /\ bucket_size = DutyBucketSize
    /\ now = NowValue
    /\ buckets = zeroed(num_buckets)
    /\ taken = [n \in 0..(num_buckets - 1) |-> "continue"]
    /\ pc = "idle"
    /\ start = now
    /\ end = now
    /\ mid = now
    /\ current = NoBuilds
    /\ finished = NoBuilds
    /\ ci = 1
    /\ fi = 1
    /\ InitWebIdle

NextWeb ==
    \E r \in Requests :
        \/ \E path \in Paths : getChild(r, path)
        \/ performAction_yield(r)
        \/ \E res \in BOOLEAN : ShutdownActionResource_resume(r, res)
        \/ \E res \in BOOLEAN : PauseActionResource_resume(r, res)
        \/ performAction_errback(r)

SpecWeb == InitWeb /\ [][NextWeb]_vars

----------------------------------------------------------------------------
(* Properties of add_to_buckets, under SpecAdd *)

Max(a, b) == IF a >= b THEN a ELSE b
Min(a, b) == IF a <= b THEN a ELSE b

\* The busy time of [s, e] inside bucket n = [now-(n+1)*size, now-n*size]
Overlap(n, s, e) ==
    Max(0, Min(e, now - n * bucket_size) - Max(s, now - (n + 1) * bucket_size))

RECURSIVE SumUpTo(_, _)
SumUpTo(b, n) == IF n < 0 THEN 0 ELSE b[n] + SumUpTo(b, n - 1)

\* C1: for a well-formed interval (start <= end) added to zeroed buckets,
\* every bucket n receives exactly the busy time of the interval inside
\* bucket n: max(0, min(end, bucket_end) - max(start, bucket_start)).
C1_AddsTrueOverlap ==
    (pc = "whole" /\ start <= end) =>
        \A n \in 0..(num_buckets - 1) : buckets[n] = Overlap(n, start, end)

\* C2: an interval that spans all num_buckets buckets (start at or before
\* now - num_buckets*bucket_size, end at or after now) leaves bucket_size in
\* every bucket.
C2_FullWindowSaturation ==
    (pc = "whole" /\ start <= now - num_buckets * bucket_size /\ end >= now) =>
        \A n \in 0..(num_buckets - 1) : buckets[n] = bucket_size

\* C3: adding [start, mid] and then [mid, end] to zeroed buckets gives, bucket
\* by bucket, what adding [start, end] once to zeroed buckets gives.
C3_SplitAdditivity ==
    pc = "split" =>
        buckets = add_to_buckets(num_buckets, zeroed(num_buckets), bucket_size,
                                 start, end, now)

\* C7: an interval exactly equal to bucket k's span leaves bucket_size in
\* bucket k and 0 in every other bucket, its two neighbours included.
C7_ExactBucketSpan ==
    pc = "whole" =>
        \A k \in 0..(num_buckets - 1) :
            (start = now - (k + 1) * bucket_size /\ end = now - k * bucket_size) =>
                \A n \in 0..(num_buckets - 1) :
                    buckets[n] = IF n = k THEN bucket_size ELSE 0

\* an interior bucket's exact span was added: the bucket holds bucket_size and
\* both neighbours, which share a boundary timestamp with it, hold 0
C7_Witness ==
    /\ pc = "whole"
    /\ num_buckets = 7
    /\ bucket_size = 86400
    /\ \E k \in 1..5 :
          /\ start = now - (k + 1) * bucket_size
          /\ end = now - k * bucket_size
          /\ taken[k] = "start"
          /\ buckets[k] = 86400
          /\ buckets[k - 1] = 0
          /\ buckets[k + 1] = 0

\* C8: an interval that straddles exactly one bucket boundary
\* B = now - (n+1)*bucket_size, start in bucket n+1 and end in bucket n, adds
\* end - B to bucket n, B - start to bucket n+1 and 0 to every other bucket;
\* the contributions sum to end - start.
C8_StraddleOneBoundary ==
    pc = "whole" =>
        \A n \in 0..(num_buckets - 2) :
            LET B == now - (n + 1) * bucket_size
            IN  (B - bucket_size <= start /\ start < B /\ B <= end /\ end < B + bucket_size) =>
                    /\ buckets[n] = end - B
                    /\ buckets[n + 1] = B - start
                    /\ \A m \in 0..(num_buckets - 1) : m \notin {n, n + 1} => buckets[m] = 0
                    /\ SumUpTo(buckets, num_buckets - 1) = end - start

\* the scenario count=7, size=86400, interval [now-90000, now-3600]
C8_Witness ==
    /\ pc = "whole"
    /\ num_buckets = 7
    /\ bucket_size = 86400
    /\ start = now - 90000
    /\ end = now - 3600
    /\ taken[0] = "end"
    /\ taken[1] = "start"
    /\ buckets[0] = 82800
    /\ buckets[1] = 3600
    /\ \A m \in 2..6 : buckets[m] = 0

\* C9: for a well-formed interval and every bucket that the disjointness
\* check does not skip, one of the four accumulation cases fires; the
\* fall-through where none fires is never taken.
C9_CasesExhaustive ==
    (pc = "whole" /\ start <= end) =>
        \A n \in 0..(num_buckets - 1) : taken[n] # "none"

----------------------------------------------------------------------------
(* Properties of determine_duty_cycle, under SpecDuty *)

\* The full sweep: add_to_buckets for every build of the slave in builds[i..],
\* never breaking.
RECURSIVE SweepAll(_, _, _)
SweepAll(builds, i, b) ==
    IF i > Len(builds) THEN b
    ELSE SweepAll(builds, i + 1,
                  IF builds[i].slavename = SlaveName
                  THEN add_to_buckets(num_buckets, b, bucket_size,
                                      builds[i].times[1], builds[i].times[2], now)
                  ELSE b)

FullSweep == SweepAll(finished, 1, SweepAll(current, 1, zeroed(num_buckets)))

Own(builds) == {i \in 1..Len(builds) : builds[i].slavename = SlaveName}

OutOfReach(rb) == rb.times[2] < now - num_buckets * bucket_size

\* the slave's finished builds are yielded in non-increasing order of end
SortedByEnd ==
    \A i \in Own(finished) : \A j \in Own(finished) :
        i < j => finished[i].times[2] >= finished[j].times[2]

\* no finished build of the slave that reaches the window is yielded after
\* one that ends before bucket_reach
NoneInReachAfterOutOfReach ==
    \A i \in Own(finished) : \A j \in Own(finished) :
        (i < j /\ OutOfReach(finished[i])) => OutOfReach(finished[j])

\* the finished builds yielded before the first build of the slave that ends
\* before bucket_reach
BeforeFirstOutOfReach ==
    LET out == {i \in Own(finished) : OutOfReach(finished[i])}
        k   == IF out = {} THEN Len(finished)
               ELSE (CHOOSE i \in out : \A j \in out : i <= j) - 1
    IN  SubSeq(finished, 1, k)

WellFormed(builds) ==
    \A i \in Own(builds) : builds[i].times[1] <= builds[i].times[2]

\* C4: when the slave's finished builds are yielded in non-increasing order
\* of end, the totals left by the loop, which breaks at the first end before
\* bucket_reach, are those of sweeping every build without breaking.
C4_EarlyBreakPreservesTotals ==
    (pc = "normalize" /\ SortedByEnd) => buckets = FullSweep

\* a sorted stream in which the loop added a build and then broke before
\* the stream's end
C4_Witness ==
    /\ pc = "normalize"
    /\ SortedByEnd
    /\ fi = 2
    /\ fi <= Len(finished)
    /\ finished[1].slavename = SlaveName
    /\ OutOfReach(finished[2])
    /\ \E n \in 0..(num_buckets - 1) : buckets[n] > 0

\* C5 as stated: whatever the order in which the finished builds are
\* yielded, the totals left by the loop are those of the full sweep.
C5_AnyOrderEqualsFullSweep ==
    pc = "normalize" => buckets = FullSweep

\* C5 amended: the loop leaves the totals of the full sweep over the builds
\* yielded before the first one of the slave that ends before bucket_reach;
\* they are the totals of the full sweep over all builds whenever no build of
\* the slave that reaches the window follows one that does not.
C5_EqualsFullSweepUnlessCutShort ==
    pc = "normalize" =>
        /\ buckets = SweepAll(BeforeFirstOutOfReach, 1,
                              SweepAll(current, 1, zeroed(num_buckets)))
        /\ NoneInReachAfterOutOfReach => buckets = FullSweep

\* an unsorted stream, swept to its end, with busy time in some bucket
C5_Witness ==
    /\ pc = "normalize"
    /\ ~SortedByEnd
    /\ NoneInReachAfterOutOfReach
    /\ fi > Len(finished)
    /\ Len(finished) = 2
    /\ \E n \in 0..(num_buckets - 1) : buckets[n] > 0

----------------------------------------------------------------------------
(* Properties of the slave actions, under SpecWeb *)

\* request r's performAction resumes in this step with result res
Resumes(r, res) ==
    /\ req[r].pc = "waiting"
    /\ req'[r].pc = "done"
    /\ req'[r].res = res

\* C10: the slave is modified only by a performAction whose actionAllowed
\* resolved true for that action (setGraceful(True) by gracefulShutdown,
\* setPaused(state) by pauseSlave); a performAction whose actionAllowed
\* resolved false leaves graceful and paused unchanged and returns the
\* authorization-failure path, and one that resolved true returns the
\* slave's page.
C10_ActionsGatedByAuthz ==
    [][ /\ graceful' # graceful =>
              \E r \in Requests :
                  /\ Resumes(r, TRUE)
                  /\ req[r].action = "gracefulShutdown"
                  /\ graceful' = TRUE
        /\ paused' # paused =>
              \E r \in Requests :
                  /\ Resumes(r, TRUE)
                  /\ req[r].action = "pauseSlave"
                  /\ paused' = req[r].state
        /\ \A r \in Requests :
              Resumes(r, FALSE) =>
                  /\ graceful' = graceful
                  /\ paused' = paused
                  /\ req'[r].url = "path_to_authzfail"
        /\ \A r \in Requests :
              Resumes(r, TRUE) => req'[r].url = "path_to_slave"
      ]_vars

\* a shutdown was refused and left the slave as it was, and a pause was
\* allowed and paused it
C10_Witness ==
    /\ graceful = FALSE
    /\ paused = TRUE
    /\ \E r \in Requests :
          /\ req[r].pc = "done"
          /\ req[r].action = "gracefulShutdown"
          /\ req[r].res = FALSE
          /\ req[r].url = "path_to_authzfail"
    /\ \E r \in Requests :
          /\ req[r].pc = "done"
          /\ req[r].action = "pauseSlave"
          /\ req[r].res = TRUE
          /\ req[r].url = "path_to_slave"

====
